---- MODULE Spec2Model ----
(***************************************************************************)
(* Model of the circuit breaker of src/breaker.go (package gocbr).         *)
(*                                                                         *)
(* The breaker's fields are the variables state, generation, counts and    *)
(* expiry; its configuration (set once by NewCircuitBreaker) is name,      *)
(* maxRequests, interval, timeout, readyToTrip and onStateChange.  Time is *)
(* an integer clock `now` that Tick advances; time.Time's zero value is    *)
(* ZeroTime, which lies before every instant the clock takes.              *)
(*                                                                         *)
(* Every public method is one action, except OnSuccess/OnFailure, which    *)
(* are two: the argument cb.generation is evaluated before afterRequest    *)
(* takes the mutex (breaker.go:197, 202), so other callers may run between *)
(* that read and the locked body.                                          *)
(*                                                                         *)
(* uint32/uint64 wrap-around is not modelled: every counter stays below    *)
(* 2^31: the counters by MaxCount and MaxStray, the generation by the      *)
(* number of state changes and rollovers that fit into MaxTime.            *)
(***************************************************************************)
EXTENDS Integers, Sequences, FiniteSets, TLC

VARIABLES
    name, maxRequests, interval, timeout, readyToTrip, onStateChange,
    state, generation, counts, expiry,
    now,
    pc, admittedGen, before, success,
    admits, since, strays,
    last,
    mutex, inObserver, access

cfgVars == <<name, maxRequests, interval, timeout, readyToTrip, onStateChange>>
cbVars == <<state, generation, counts, expiry>>
callerVars == <<pc, admittedGen, before, success>>
lockVars == <<mutex, inObserver, access>>
vars == <<cfgVars, cbVars, now, callerVars, admits, since, strays, last,
          lockVars>>

----------------------------------------------------------------------------
(* Bounds of the model *)

\* The clock runs from 1 to MaxTime
MaxTime == 3
\* BeforeRequest is not called once Requests has reached MaxCount
MaxCount == 3
\* At most MaxStray reports are made by callers that hold no permit
MaxStray == 1

\* The concurrent callers
Callers == {"c1", "c2"}

\* Where one caller runs alone, BeforeRequest is not called once Requests
\* has reached MaxTrip
MaxTrip == 7

----------------------------------------------------------------------------
(* Constants of the program *)

StateClosed == 0
StateHalfOpen == 1
StateOpen == 2

States == {StateClosed, StateHalfOpen, StateOpen}

defaultInterval == 0
defaultTimeout == 60
defaultMaxRequests == 1
defaultMaxConsecutiveFailures == 5

ErrNil == "nil"
ErrTooManyRequests == "too many requests"
ErrOpenState == "circuit breaker is open"

\* time.Time{}: the zero instant, before every instant of the clock
ZeroTime == 0
IsZero(t) == t = ZeroTime
Before(t, u) == t < u

\* The ReadyToTrip predicate of the README's test
TestTripAt == 3

----------------------------------------------------------------------------
(* Counts *)

ZeroCounts ==
    [Requests |-> 0, TotalSuccesses |-> 0, TotalFailures |-> 0,
     ConsecutiveSuccesses |-> 0, ConsecutiveFailures |-> 0]

Counts_onRequest(c) == [c EXCEPT !.Requests = @ + 1]

\* onSuccess that leaves the failure streak alone
Counts_onSuccess_KeepStreak(c) ==
    [c EXCEPT !.TotalSuccesses = @ + 1, !.ConsecutiveSuccesses = @ + 1]

Counts_onSuccess(c) ==
    [c EXCEPT !.TotalSuccesses = @ + 1,
              !.ConsecutiveSuccesses = @ + 1,
              !.ConsecutiveFailures = 0]

Counts_onFailure(c) ==
    [c EXCEPT !.TotalFailures = @ + 1,
              !.ConsecutiveFailures = @ + 1,
              !.ConsecutiveSuccesses = 0]

Counts_clear(c) ==
    [c EXCEPT !.Requests = 0, !.TotalSuccesses = 0, !.TotalFailures = 0,
              !.ConsecutiveSuccesses = 0, !.ConsecutiveFailures = 0]

\* defaultReadyToTrip that trips when the limit is reached
defaultReadyToTrip_AtLimit(c) ==
    c.ConsecutiveFailures >= defaultMaxConsecutiveFailures

defaultReadyToTrip(c) == c.ConsecutiveFailures > defaultMaxConsecutiveFailures

testReadyToTrip(c) == c.ConsecutiveFailures >= TestTripAt

\* cb.readyToTrip(counts): the configured predicate
ReadyToTrip(c) ==
    IF readyToTrip = "default" THEN defaultReadyToTrip(c) ELSE testReadyToTrip(c)

----------------------------------------------------------------------------
(* The breaker as a value: its four fields, the onStateChange calls made   *)
(* so far by the running operation (calls) and, for each call, the fields  *)
(* as the observer found them (seen).                                      *)

CB == [state |-> state, generation |-> generation, counts |-> counts,
       expiry |-> expiry, calls |-> <<>>, seen |-> <<>>]

\* The fields of breaker b
Fields(b) == [state |-> b.state, generation |-> b.generation,
              counts |-> b.counts, expiry |-> b.expiry]

\* reset that starts the new generation without clearing the counts
reset_KeepCounts(b, t) ==
    [b EXCEPT !.generation = @ + 1,
              !.expiry = CASE b.state = StateClosed ->
                                IF interval = 0 THEN ZeroTime ELSE t + interval
                           [] b.state = StateOpen -> t + timeout
                           [] OTHER -> ZeroTime]

\* reset that gives the HalfOpen state the expiry of the Open state
reset_HalfOpenExpires(b, t) ==
    [b EXCEPT !.generation = @ + 1,
              !.counts = Counts_clear(@),
              !.expiry = CASE b.state = StateClosed ->
                                IF interval = 0 THEN ZeroTime ELSE t + interval
                           [] OTHER -> t + timeout]

reset(b, t) ==
    [b EXCEPT !.generation = @ + 1,
              !.counts = Counts_clear(@),
              !.expiry = CASE b.state = StateClosed ->
                                IF interval = 0 THEN ZeroTime ELSE t + interval
                           [] b.state = StateOpen -> t + timeout
                           [] OTHER -> ZeroTime]

\* setState that tells the observer before it resets
setState_NotifyFirst(b, st, t) ==
    IF b.state = st
    THEN b
    ELSE LET b1 == [b EXCEPT !.state = st]
             r == reset(b1, t)
         IN  IF onStateChange
             THEN [r EXCEPT !.calls = Append(@, <<name, b.state, st>>),
                            !.seen = Append(@, Fields(b1))]
             ELSE r

\* setState that changes the state without starting a new generation
setState_NoReset(b, st, t) ==
    IF b.state = st
    THEN b
    ELSE LET r == [b EXCEPT !.state = st]
         IN  IF onStateChange
             THEN [r EXCEPT !.calls = Append(@, <<name, b.state, st>>),
                            !.seen = Append(@, Fields(r))]
             ELSE r

setState(b, st, t) ==
    IF b.state = st
    THEN b
    ELSE LET r == reset([b EXCEPT !.state = st], t)
         IN  IF onStateChange
             THEN [r EXCEPT !.calls = Append(@, <<name, b.state, st>>),
                            !.seen = Append(@, Fields(r))]
             ELSE r

\* currentState that resolves an expiry as soon as it is reached
currentState_AtExpiry(b, t) ==
    CASE b.state = StateClosed ->
            IF ~IsZero(b.expiry) /\ ~Before(t, b.expiry) THEN reset(b, t) ELSE b
      [] b.state = StateOpen ->
            IF ~Before(t, b.expiry) THEN setState(b, StateHalfOpen, t) ELSE b
      [] OTHER -> b

\* currentState that closes the breaker when the Open timeout has passed
currentState_SkipProbe(b, t) ==
    CASE b.state = StateClosed ->
            IF ~IsZero(b.expiry) /\ Before(b.expiry, t) THEN reset(b, t) ELSE b
      [] b.state = StateOpen ->
            IF Before(b.expiry, t) THEN setState(b, StateClosed, t) ELSE b
      [] OTHER -> b

currentState(b, t) ==
    CASE b.state = StateClosed ->
            IF ~IsZero(b.expiry) /\ Before(b.expiry, t) THEN reset(b, t) ELSE b
      [] b.state = StateOpen ->
            IF Before(b.expiry, t) THEN setState(b, StateHalfOpen, t) ELSE b
      [] OTHER -> b

\* onSuccess that closes one success late
onSuccess_Late(b, st, t) ==
    CASE st = StateClosed -> [b EXCEPT !.counts = Counts_onSuccess(@)]
      [] st = StateHalfOpen ->
            LET b1 == [b EXCEPT !.counts = Counts_onSuccess(@)]
            IN  IF b1.counts.ConsecutiveSuccesses > maxRequests
                THEN setState(b1, StateClosed, t)
                ELSE b1
      [] OTHER -> b

onSuccess(b, st, t) ==
    CASE st = StateClosed -> [b EXCEPT !.counts = Counts_onSuccess(@)]
      [] st = StateHalfOpen ->
            LET b1 == [b EXCEPT !.counts = Counts_onSuccess(@)]
            IN  IF b1.counts.ConsecutiveSuccesses >= maxRequests
                THEN setState(b1, StateClosed, t)
                ELSE b1
      [] OTHER -> b

\* onFailure that asks readyToTrip before it counts the failure
onFailure_TripFirst(b, st, t) ==
    CASE st = StateClosed ->
            IF ReadyToTrip(b.counts)
            THEN setState(b, StateOpen, t)
            ELSE [b EXCEPT !.counts = Counts_onFailure(@)]
      [] st = StateHalfOpen -> setState(b, StateOpen, t)
      [] OTHER -> b

\* onFailure that applies the trip threshold to the probes too
onFailure_Threshold(b, st, t) ==
    LET b1 == [b EXCEPT !.counts = Counts_onFailure(@)]
    IN  CASE st \in {StateClosed, StateHalfOpen} ->
                IF ReadyToTrip(b1.counts) THEN setState(b1, StateOpen, t) ELSE b1
          [] OTHER -> b

onFailure(b, st, t) ==
    CASE st = StateClosed ->
            LET b1 == [b EXCEPT !.counts = Counts_onFailure(@)]
            IN  IF ReadyToTrip(b1.counts) THEN setState(b1, StateOpen, t) ELSE b1
      [] st = StateHalfOpen -> setState(b, StateOpen, t)
      [] OTHER -> b

\* beforeRequest that lets one probe too many through
beforeRequest_OneMore(b, t) ==
    LET b1 == currentState(b, t)
    IN  IF b1.state = StateOpen
        THEN [cb |-> b1, generation |-> b1.generation, err |-> ErrOpenState]
        ELSE IF b1.state = StateHalfOpen /\ b1.counts.Requests > maxRequests
        THEN [cb |-> b1, generation |-> b1.generation, err |-> ErrTooManyRequests]
        ELSE [cb |-> [b1 EXCEPT !.counts = Counts_onRequest(@)],
              generation |-> b1.generation, err |-> ErrNil]

\* beforeRequest that counts the request before it decides
beforeRequest_CountFirst(b, t) ==
    LET b1 == currentState(b, t)
        b2 == [b1 EXCEPT !.counts = Counts_onRequest(@)]
    IN  IF b1.state = StateOpen
        THEN [cb |-> b2, generation |-> b1.generation, err |-> ErrOpenState]
        ELSE IF b1.state = StateHalfOpen /\ b1.counts.Requests >= maxRequests
        THEN [cb |-> b2, generation |-> b1.generation, err |-> ErrTooManyRequests]
        ELSE [cb |-> b2, generation |-> b1.generation, err |-> ErrNil]

\* beforeRequest: the breaker after the call, the generation and the error
beforeRequest(b, t) ==
    LET b1 == currentState(b, t)
    IN  IF b1.state = StateOpen
        THEN [cb |-> b1, generation |-> b1.generation, err |-> ErrOpenState]
        ELSE IF b1.state = StateHalfOpen /\ b1.counts.Requests >= maxRequests
        THEN [cb |-> b1, generation |-> b1.generation, err |-> ErrTooManyRequests]
        ELSE [cb |-> [b1 EXCEPT !.counts = Counts_onRequest(@)],
              generation |-> b1.generation, err |-> ErrNil]

\* afterRequest that checks the generation it found before resolving the
\* state
afterRequest_CheckFirst(b, bef, succ, t) ==
    LET b1 == currentState(b, t)
    IN  IF b.generation # bef
        THEN [cb |-> b1, state |-> b1.state, generation |-> b1.generation,
              applied |-> FALSE]
        ELSE [cb |-> IF succ THEN onSuccess(b1, b1.state, t)
                             ELSE onFailure(b1, b1.state, t),
              state |-> b1.state, generation |-> b1.generation,
              applied |-> TRUE]

\* afterRequest: the breaker after the call, the state it resolved, and
\* whether the outcome was applied (the generation check passed)
afterRequest(b, bef, succ, t) ==
    LET b1 == currentState(b, t)
    IN  IF b1.generation # bef
        THEN [cb |-> b1, state |-> b1.state, generation |-> b1.generation,
              applied |-> FALSE]
        ELSE [cb |-> IF succ THEN onSuccess(b1, b1.state, t)
                             ELSE onFailure(b1, b1.state, t),
              state |-> b1.state, generation |-> b1.generation,
              applied |-> TRUE]

----------------------------------------------------------------------------
(* NewCircuitBreaker *)

NormMaxRequests(m) == IF m = 0 THEN defaultMaxRequests ELSE m
NormInterval(i) == IF i <= 0 THEN defaultInterval ELSE i
NormTimeout(t) == IF t <= 0 THEN defaultTimeout ELSE t
NormReadyToTrip(r) == IF r = "nil" THEN "default" ELSE r

\* The settings NewCircuitBreaker is given
ConfigMaxRequests == {0, 1, 2}
ConfigInterval == {-1, 0, 1}
ConfigTimeout == {0, 1}
ConfigReadyToTrip == {"nil", "test"}

\* cb.mutex: Free, or the caller that holds it
Free == "free"

\* The last access to state, generation, counts or expiry: the caller and
\* whether it held the mutex
NoAccess == [by |-> "none", held |-> TRUE]

\* What the last completed call did: the method, its return value, whether
\* an outcome report passed the generation check (applied), whether the
\* report's request had been admitted into another generation than the one
\* the report was checked against (stale), the onStateChange calls made,
\* the breaker's fields at each of them (seen), and the counts the call
\* found (had).
NoOp == [op |-> "NewCircuitBreaker", ret |-> ErrNil, applied |-> FALSE,
         stale |-> FALSE, calls |-> <<>>, seen |-> <<>>, had |-> ZeroCounts]

Init ==
    /\ name = "random-service"
    /\ \E m \in ConfigMaxRequests : maxRequests = NormMaxRequests(m)
    /\ \E i \in ConfigInterval : interval = NormInterval(i)
    /\ \E t \in ConfigTimeout : timeout = NormTimeout(t)
    /\ \E r \in ConfigReadyToTrip : readyToTrip = NormReadyToTrip(r)
    /\ onStateChange \in BOOLEAN
    /\ now = 1
    /\ LET b == reset([state |-> StateClosed, generation |-> 0,
                       counts |-> ZeroCounts, expiry |-> ZeroTime,
                       calls |-> <<>>, seen |-> <<>>], now)
       IN  /\ state = b.state
           /\ generation = b.generation
           /\ counts = b.counts
           /\ expiry = b.expiry
    /\ pc = [c \in Callers |-> "idle"]
    /\ admittedGen = [c \in Callers |-> 0]
    /\ before = [c \in Callers |-> 0]
    /\ success = [c \in Callers |-> FALSE]
    /\ admits = 0
    /\ since = now
    /\ strays = 0
    /\ last = NoOp
    /\ mutex = Free
    /\ inObserver = [c \in Callers |-> "no"]
    /\ access = NoAccess

----------------------------------------------------------------------------
(* Operations *)

\* The breaker's fields after an operation, with the bookkeeping that the
\* properties read: admits counts the nil returns of BeforeRequest in the
\* current generation, since is the instant the current generation began.
Commit(b, admittedNow) ==
    /\ state' = b.state
    /\ generation' = b.generation
    /\ counts' = b.counts
    /\ expiry' = b.expiry
    /\ admits' = (IF b.generation # generation THEN 0 ELSE admits)
                 + (IF admittedNow THEN 1 ELSE 0)
    /\ since' = IF b.generation # generation THEN now ELSE since

Record(op, ret, applied, stale, b) ==
    last' = [op |-> op, ret |-> ret, applied |-> applied, stale |-> stale,
             calls |-> b.calls, seen |-> b.seen, had |-> counts]

\* The clock advances
Advance ==
    /\ now' = now + 1
    /\ UNCHANGED <<cfgVars, cbVars, callerVars, admits, since, strays, last,
                   lockVars>>

Tick == now < MaxTime /\ Advance

\* The body of State
StateBody ==
    LET b == currentState(CB, now)
    IN  /\ Commit(b, FALSE)
        /\ Record("State", b.state, FALSE, FALSE, b)
        /\ UNCHANGED <<cfgVars, now, callerVars, strays>>

State == StateBody /\ UNCHANGED lockVars

\* The body of Counts
CountsBody ==
    /\ Record("Counts", counts, FALSE, FALSE, CB)
    /\ UNCHANGED <<cfgVars, cbVars, now, callerVars, admits, since, strays>>

Counts == CountsBody /\ UNCHANGED lockVars

\* The body of BeforeRequest, called by caller c
Admit(c) ==
    /\ pc[c] = "idle"
    /\ LET r == beforeRequest(CB, now)
       IN  /\ Commit(r.cb, r.err = ErrNil)
           /\ Record("BeforeRequest", r.err, FALSE, FALSE, r.cb)
           /\ IF r.err = ErrNil
              THEN /\ pc' = [pc EXCEPT ![c] = "admitted"]
                   /\ admittedGen' = [admittedGen EXCEPT ![c] = r.generation]
              ELSE UNCHANGED <<pc, admittedGen>>
    /\ UNCHANGED <<cfgVars, now, before, success, strays>>

BeforeRequest(c) ==
    /\ counts.Requests < MaxCount
    /\ Admit(c)
    /\ UNCHANGED lockVars

\* The read of cb.generation that OnSuccess / OnFailure pass to afterRequest
ReadGeneration(c, succ) ==
    /\ pc[c] = "admitted"
    /\ pc' = [pc EXCEPT ![c] = "reporting"]
    /\ before' = [before EXCEPT ![c] = generation]
    /\ success' = [success EXCEPT ![c] = succ]
    /\ UNCHANGED <<cfgVars, cbVars, now, admittedGen, admits, since, strays,
                   last>>

\* OnSuccess / OnFailure, first half: the argument cb.generation is read
Report(c, succ) == ReadGeneration(c, succ) /\ UNCHANGED lockVars

OnSuccess(c) == Report(c, TRUE)

OnFailure(c) == Report(c, FALSE)

\* The body of afterRequest, called by caller c
Settle(c) ==
    /\ pc[c] = "reporting"
    /\ LET r == afterRequest(CB, before[c], success[c], now)
       IN  /\ Commit(r.cb, FALSE)
           /\ Record(IF success[c] THEN "OnSuccess" ELSE "OnFailure", ErrNil,
                     r.applied, admittedGen[c] # r.generation, r.cb)
    /\ pc' = [pc EXCEPT ![c] = "idle"]
    /\ admittedGen' = [admittedGen EXCEPT ![c] = 0]
    /\ before' = [before EXCEPT ![c] = 0]
    /\ success' = [success EXCEPT ![c] = FALSE]
    /\ UNCHANGED <<cfgVars, now, strays>>

\* OnSuccess / OnFailure, second half: afterRequest under the mutex
AfterRequest(c) == Settle(c) /\ UNCHANGED lockVars

\* A report that follows no admission of its own: OnSuccess / OnFailure
\* called by a caller that holds no permit
StrayReport(c, succ) ==
    /\ pc[c] = "idle"
    /\ strays < MaxStray
    /\ strays' = strays + 1
    /\ pc' = [pc EXCEPT ![c] = "reporting"]
    /\ before' = [before EXCEPT ![c] = generation]
    /\ success' = [success EXCEPT ![c] = succ]
    /\ UNCHANGED <<cfgVars, cbVars, now, admittedGen, admits, since, last,
                   lockVars>>

StrayOnSuccess(c) == StrayReport(c, TRUE)

StrayOnFailure(c) == StrayReport(c, FALSE)

Next ==
    \/ Tick
    \/ State
    \/ Counts
    \/ \E c \in Callers : BeforeRequest(c)
    \/ \E c \in Callers : OnSuccess(c)
    \/ \E c \in Callers : OnFailure(c)
    \/ \E c \in Callers : AfterRequest(c)

NextAny ==
    \/ Next
    \/ \E c \in Callers : StrayOnSuccess(c)
    \/ \E c \in Callers : StrayOnFailure(c)

\* Protocol-conforming use: every report is the one report of an admission
Spec == Init /\ [][Next]_vars

\* Any sequence of calls, on a breaker built as the README's test builds it
\* (probe budget 2, interval and timeout one tick)
InitAny ==
    /\ Init
    /\ maxRequests = 2 /\ interval = 1 /\ timeout = 1
    /\ readyToTrip = "test" /\ onStateChange

SpecAny == InitAny /\ [][NextAny]_vars

TypeOK ==
    /\ state \in States
    /\ generation \in Nat
    /\ now \in 1..MaxTime
    /\ strays \in 0..MaxStray
    /\ pc \in [Callers -> {"idle", "admitted", "reporting"}]

----------------------------------------------------------------------------
(* Properties *)

IsReport == last.op \in {"OnSuccess", "OnFailure"}

\* C1: a report whose request was admitted into another generation than
\* the breaker's current one is discarded: it is never applied to the
\* counts of a generation the request was not admitted into.
C1_StaleReportDiscarded ==
    (IsReport /\ last.stale) => ~last.applied

\* C2: under protocol-conforming use the successes and failures counted
\* never exceed the requests counted.
C2_OutcomesWithinRequests ==
    counts.TotalSuccesses + counts.TotalFailures <= counts.Requests

\* C3: after any sequence of calls, conforming or not, the two streak
\* counters are never both nonzero.
C3_OneStreak ==
    ~(counts.ConsecutiveSuccesses # 0 /\ counts.ConsecutiveFailures # 0)

\* A success applied on top of earlier failures, after a stray report
C3_Witness ==
    /\ strays > 0
    /\ last.op = "OnSuccess" /\ last.applied
    /\ last.had.ConsecutiveFailures > 0
    /\ counts.ConsecutiveSuccesses > 0 /\ counts.ConsecutiveFailures = 0


\* What onStateChange has been called with by the last call, when the
\* breaker went from state f to state g in it
Notified(f, g) == IF onStateChange THEN <<<<name, f, g>>>> ELSE <<>>

\* The time elapsed since the current generation began
Elapsed == now - since

\* The steps that are a report of caller c passing the generation check
Applied(c, succ) == AfterRequest(c) /\ success[c] = succ /\ last'.applied

\* C4: within one HalfOpen generation at most maxRequests calls of
\* BeforeRequest return nil, and once Requests has reached maxRequests
\* every BeforeRequest returns ErrTooManyRequests and leaves the breaker
\* HalfOpen.
C4_ProbeBudget ==
    [][/\ state' = StateHalfOpen => admits' <= maxRequests
       /\ \A c \in Callers :
            (BeforeRequest(c) /\ state = StateHalfOpen
                /\ counts.Requests >= maxRequests)
            => (last'.ret = ErrTooManyRequests /\ state' = StateHalfOpen
                /\ pc'[c] = "idle")]_vars

\* The probe budget of 2 is used up and a further BeforeRequest was refused
C4_Witness ==
    /\ state = StateHalfOpen /\ maxRequests = 2 /\ admits = 2
    /\ last.op = "BeforeRequest" /\ last.ret = ErrTooManyRequests

\* C5: while the breaker is Open and no more than timeout has elapsed
\* since it became Open, BeforeRequest returns ErrOpenState and the state
\* stays Open; a BeforeRequest or State made when more than timeout has
\* elapsed moves the breaker to HalfOpen, and the BeforeRequest returns
\* nil with Requests = 1.
C5_OpenUntilTimeout ==
    [][/\ \A c \in Callers :
            (BeforeRequest(c) /\ state = StateOpen) =>
                IF Elapsed <= timeout
                THEN last'.ret = ErrOpenState /\ state' = StateOpen
                ELSE /\ state' = StateHalfOpen
                     /\ last'.ret = ErrNil
                     /\ counts'.Requests = 1
       /\ (State /\ state = StateOpen /\ Elapsed > timeout) =>
            (state' = StateHalfOpen /\ last'.ret = StateHalfOpen)]_vars

\* A BeforeRequest found the breaker Open past its timeout, moved it to
\* HalfOpen and was admitted as the first probe
C5_Witness ==
    /\ last.op = "BeforeRequest" /\ last.ret = ErrNil
    /\ onStateChange /\ last.calls = <<<<name, StateOpen, StateHalfOpen>>>>
    /\ state = StateHalfOpen /\ counts.Requests = 1 /\ now - since = 0

\* C6: when a failure applied in Closed makes readyToTrip true, the
\* breaker is Open when the call returns and onStateChange has been called
\* exactly once, with (name, Closed, Open); a State read made before the
\* timeout has elapsed returns Open.
C6_TripOpens ==
    [][/\ \A c \in Callers :
            (Applied(c, FALSE) /\ state = StateClosed
                /\ ReadyToTrip(Counts_onFailure(counts)))
            => (state' = StateOpen
                /\ last'.calls = Notified(StateClosed, StateOpen))
       /\ (State /\ state = StateOpen /\ Elapsed <= timeout) =>
            (last'.ret = StateOpen /\ state' = StateOpen
                /\ last'.calls = <<>>)]_vars

\* The third consecutive failure of the test's ReadyToTrip opened the
\* breaker and the observer was told once
C6_Witness ==
    /\ last.op = "OnFailure" /\ last.applied
    /\ last.had.ConsecutiveFailures = TestTripAt - 1
    /\ state = StateOpen
    /\ last.calls = <<<<name, StateClosed, StateOpen>>>>

\* C7: a failure applied while the breaker is HalfOpen moves it to Open
\* with the counts cleared, the generation incremented and expiry set to
\* now + timeout, whatever successes the generation had counted.
C7_ProbeFailureOpens ==
    [][\A c \in Callers :
        (Applied(c, FALSE) /\ state = StateHalfOpen)
        => /\ state' = StateOpen
           /\ counts' = ZeroCounts
           /\ generation' = generation + 1
           /\ expiry' = now + timeout
           /\ last'.calls = Notified(StateHalfOpen, StateOpen)]_vars

\* A probe failed after another probe of the same generation had succeeded
C7_Witness ==
    /\ last.op = "OnFailure" /\ last.applied
    /\ last.had.TotalSuccesses > 0 /\ last.had.ConsecutiveSuccesses > 0
    /\ state = StateOpen /\ counts = ZeroCounts

\* C8: in HalfOpen a BeforeRequest made while fewer than maxRequests
\* probes have been admitted returns nil; an applied success that is not
\* yet the maxRequests-th of the generation leaves the breaker HalfOpen,
\* and the maxRequests-th makes it Closed with all five counts zero.
C8_ProbeSuccessesClose ==
    [][\A c \in Callers :
        /\ (BeforeRequest(c) /\ state = StateHalfOpen
                /\ admits < maxRequests)
           => (last'.ret = ErrNil /\ state' = StateHalfOpen)
        /\ (Applied(c, TRUE) /\ state = StateHalfOpen) =>
                IF counts.TotalSuccesses + 1 < maxRequests
                THEN /\ state' = StateHalfOpen
                     /\ counts'.TotalSuccesses = counts.TotalSuccesses + 1
                     /\ last'.calls = <<>>
                ELSE /\ counts.TotalSuccesses + 1 = maxRequests
                     /\ state' = StateClosed
                     /\ counts' = ZeroCounts
                     /\ last'.calls = Notified(StateHalfOpen, StateClosed)]_vars

\* Two probes were admitted and the second success closed the breaker
C8_Witness ==
    /\ last.op = "OnSuccess" /\ last.applied
    /\ maxRequests = 2
    /\ last.had.Requests = 2 /\ last.had.TotalSuccesses = 1
    /\ last.had.TotalFailures = 0
    /\ state = StateClosed /\ counts = ZeroCounts

\* The steps that resolve the breaker's state: State, BeforeRequest and
\* the locked half of OnSuccess / OnFailure
Resolves == State \/ \E c \in Callers : BeforeRequest(c) \/ AfterRequest(c)

\* C9: in Closed with interval > 0, a call that resolves the state when
\* more than interval has elapsed since the window began clears the counts
\* and increments the generation, the state stays Closed and onStateChange
\* is not called; a BeforeRequest doing so returns nil and leaves
\* Requests = 1.  No call made earlier in the window, and with
\* interval = 0 no call at all, starts a new generation while the breaker
\* stays Closed, and the passage of time alone changes nothing.
C9_WindowRollover ==
    [][/\ (Resolves /\ state = StateClosed /\ interval > 0
                /\ Elapsed > interval)
            => /\ state' = StateClosed
               /\ generation' = generation + 1
               /\ last'.calls = <<>>
               /\ IF last'.op = "BeforeRequest"
                  THEN /\ last'.ret = ErrNil
                       /\ counts' = [ZeroCounts EXCEPT !.Requests = 1]
                  ELSE counts' = ZeroCounts
       /\ (state = StateClosed /\ state' = StateClosed
                /\ (interval = 0 \/ Elapsed <= interval))
            => /\ generation' = generation
               /\ counts'.Requests >= counts.Requests
               /\ counts'.TotalSuccesses >= counts.TotalSuccesses
               /\ counts'.TotalFailures >= counts.TotalFailures
       /\ Tick => UNCHANGED cbVars]_vars

\* A BeforeRequest found a Closed window with requests in it expired,
\* started the next one and was counted as its first request
C9_Witness ==
    /\ last.op = "BeforeRequest" /\ last.ret = ErrNil
    /\ last.had.Requests > 1
    /\ state = StateClosed /\ interval > 0 /\ now - since = 0
    /\ generation = 2 /\ counts.Requests = 1 /\ last.calls = <<>>

\* C10: a BeforeRequest that returns ErrOpenState or ErrTooManyRequests
\* leaves counts, state, generation and expiry as they were and does not
\* call onStateChange.
C10_RejectionRecordsNothing ==
    [][\A c \in Callers :
        (BeforeRequest(c) /\ last'.ret # ErrNil)
        => (UNCHANGED cbVars /\ last'.calls = <<>>
            /\ UNCHANGED <<pc, admits>>)]_vars

\* A BeforeRequest was refused while the breaker was Open
C10_Witness ==
    /\ last.op = "BeforeRequest" /\ last.ret = ErrOpenState
    /\ state = StateOpen /\ onStateChange /\ since < now

\* C12: under protocol-conforming use no report passes the generation check
\* while the breaker is Open.
C12_NoReportAppliedInOpen ==
    [][\A c \in Callers :
        (AfterRequest(c) /\ last'.applied) => state # StateOpen]_vars

\* The steps that are a call of a method of the breaker
Calls == Resolves \/ Counts

\* expiry as the state entered at instant t requires it
ExpiryRule(st, t) ==
    CASE st = StateClosed -> IF interval > 0 THEN t + interval ELSE ZeroTime
      [] st = StateOpen -> t + timeout
      [] OTHER -> ZeroTime

\* C13: a call that changes the state calls a registered onStateChange
\* exactly once, with (name, previous state, new state), and a call that
\* does not change it (a window rollover included) does not call it; the
\* state changes in no other step.  When the observer is called the
\* breaker already has the new state, zero counts, the incremented
\* generation and the expiry of the new state.
C13_ObserverAfterCommit ==
    [][/\ state' # state => Calls
       /\ Calls =>
            /\ last'.calls = IF state' # state
                             THEN Notified(state, state') ELSE <<>>
            /\ Len(last'.seen) = Len(last'.calls)
            /\ \A i \in 1..Len(last'.seen) :
                    last'.seen[i] =
                        [state |-> state', generation |-> generation + 1,
                         counts |-> ZeroCounts,
                         expiry |-> ExpiryRule(state', now)]]_vars

\* The observer was told of Open -> HalfOpen by a BeforeRequest that then
\* counted its request: it saw zero counts, the call left Requests = 1
C13_Witness ==
    /\ last.op = "BeforeRequest"
    /\ last.calls = <<<<name, StateOpen, StateHalfOpen>>>>
    /\ Len(last.seen) = 1
    /\ last.seen[1].counts = ZeroCounts /\ last.seen[1].state = StateHalfOpen
    /\ counts.Requests = 1

\* The state changes of the breaker
Transitions ==
    {<<StateClosed, StateOpen>>, <<StateOpen, StateHalfOpen>>,
     <<StateHalfOpen, StateOpen>>, <<StateHalfOpen, StateClosed>>}

\* C15: the breaker starts Closed and every change of its state is one of
\* Closed -> Open, Open -> HalfOpen, HalfOpen -> Open, HalfOpen -> Closed.
C15_OnlyFourTransitions ==
    /\ state = StateClosed
    /\ [][state' # state => <<state, state'>> \in Transitions]_vars

\* The breaker has gone Closed -> Open -> HalfOpen -> Closed
C15_Witness ==
    /\ state = StateClosed /\ generation = 4 /\ since = now
    /\ last.calls = <<<<name, StateHalfOpen, StateClosed>>>>

\* The Closed window has expired: the next call that resolves the state
\* rolls it over
WindowExpired == state = StateClosed /\ interval > 0 /\ Elapsed > interval

\* C17: the generation is 1 after construction and never decreases; a step
\* increases it, by exactly 1, when and only when the state changes or a
\* call rolls an expired Closed window over.  The call that starts a
\* generation leaves all counts zero, but for the one request that a
\* BeforeRequest doing so then records; within a generation the state does
\* not change and the counts are not cleared.
C17_GenerationCountsResets ==
    /\ generation = 1
    /\ [][/\ generation' \in {generation, generation + 1}
          /\ generation' # generation <=>
                (state' # state \/ (WindowExpired /\ Resolves))
          /\ generation' # generation =>
                counts' = [ZeroCounts EXCEPT !.Requests =
                             IF last'.op = "BeforeRequest" THEN 1 ELSE 0]
          /\ generation' = generation =>
                /\ counts'.Requests >= counts.Requests
                /\ counts'.TotalSuccesses >= counts.TotalSuccesses
                /\ counts'.TotalFailures >= counts.TotalFailures]_vars

\* After a window rollover the trip to Open started the third generation
C17_Witness ==
    /\ generation = 3 /\ state = StateOpen /\ interval > 0
    /\ last.op = "OnFailure" /\ last.applied /\ since = now
    /\ counts = ZeroCounts /\ last.had.Requests > 0

\* C19: in Closed with interval > 0, an OnSuccess / OnFailure that is the
\* first call to resolve the state after the window has expired rolls the
\* window over and drops its outcome: the counts are zero afterwards, the
\* generation is incremented, the breaker stays Closed and the observer
\* is not called, whatever the failure streak was.
C19_ReportAtRolloverDropped ==
    [][\A c \in Callers :
        (AfterRequest(c) /\ WindowExpired)
        => /\ ~last'.applied
           /\ counts' = ZeroCounts
           /\ generation' = generation + 1
           /\ state' = StateClosed
           /\ last'.calls = <<>>]_vars

\* A failure that would have been the third in a row found the window
\* expired and was dropped
C19_Witness ==
    /\ last.op = "OnFailure" /\ ~last.applied
    /\ readyToTrip = "test"
    /\ last.had.ConsecutiveFailures = TestTripAt - 1
    /\ state = StateClosed /\ counts = ZeroCounts /\ since = now

----------------------------------------------------------------------------
(* One caller on a breaker built with ReadyToTrip nil and no interval *)

TripCaller == CHOOSE c \in Callers : TRUE

InitTrip ==
    /\ Init
    /\ readyToTrip = "default" /\ interval = 0
    /\ maxRequests = 1 /\ timeout = 1 /\ onStateChange

TripBeforeRequest ==
    /\ counts.Requests < MaxTrip
    /\ Admit(TripCaller)
    /\ UNCHANGED lockVars

NextTrip ==
    \/ Tick
    \/ State
    \/ Counts
    \/ TripBeforeRequest
    \/ OnSuccess(TripCaller)
    \/ OnFailure(TripCaller)
    \/ AfterRequest(TripCaller)

SpecTrip == InitTrip /\ [][NextTrip]_vars

\* C14: with the default ReadyToTrip and no window rollover the breaker is
\* Closed with at most 5 consecutive failures counted; an applied failure
\* opens it exactly when it is the 6th in a row, and an applied success
\* sets the streak back to zero.
C14_DefaultTripsOnSixth ==
    [][/\ state' = StateClosed =>
            counts'.ConsecutiveFailures <= defaultMaxConsecutiveFailures
       /\ (Applied(TripCaller, FALSE) /\ state = StateClosed) =>
            IF counts.ConsecutiveFailures + 1 = defaultMaxConsecutiveFailures + 1
            THEN state' = StateOpen
            ELSE /\ state' = StateClosed
                 /\ counts'.ConsecutiveFailures = counts.ConsecutiveFailures + 1
       /\ (Applied(TripCaller, TRUE) /\ state = StateClosed) =>
            /\ state' = StateClosed
            /\ counts'.ConsecutiveFailures = 0]_vars

\* The breaker opened on the sixth failure in a row, counted after a
\* success had set an earlier streak back
C14_Witness ==
    /\ last.op = "OnFailure" /\ last.applied
    /\ last.had.ConsecutiveFailures = defaultMaxConsecutiveFailures
    /\ last.had.TotalSuccesses > 0
    /\ state = StateOpen
    /\ last.calls = <<<<name, StateClosed, StateOpen>>>>

----------------------------------------------------------------------------
(* A breaker with the test's ReadyToTrip, interval and timeout of one tick *)
(* and a probe budget of 1 or 2, over a longer run: one more tick and one  *)
(* more request per generation than in Spec                                *)

InitLong ==
    /\ Init
    /\ interval = 1 /\ timeout = 1
    /\ readyToTrip = "test" /\ onStateChange

LongTime == MaxTime + 1
LongCount == MaxCount + 1

LongTick == now < LongTime /\ Advance

LongBeforeRequest(c) ==
    /\ counts.Requests < LongCount
    /\ Admit(c)
    /\ UNCHANGED lockVars

NextLong ==
    \/ LongTick
    \/ State
    \/ Counts
    \/ \E c \in Callers : LongBeforeRequest(c)
    \/ \E c \in Callers : OnSuccess(c)
    \/ \E c \in Callers : OnFailure(c)
    \/ \E c \in Callers : AfterRequest(c)

SpecLong == InitLong /\ [][NextLong]_vars

\* C16: while the breaker is HalfOpen its expiry is unset, and neither the
\* passage of time nor a State, Counts or BeforeRequest call nor the read
\* that begins a report changes its state, generation or expiry; it
\* leaves HalfOpen only in a report that passes the generation check.
C16_HalfOpenLeftByReportOnly ==
    [][/\ state' = StateHalfOpen => expiry' = ZeroTime
       /\ state = StateHalfOpen =>
            /\ (\A c \in Callers : ~AfterRequest(c))
                    => UNCHANGED <<state, generation, expiry>>
            /\ state' # StateHalfOpen
                    => (\E c \in Callers : AfterRequest(c) /\ last'.applied)
            /\ \A c \in Callers :
                    (LongBeforeRequest(c) /\ admits >= maxRequests)
                        => last'.ret = ErrTooManyRequests]_vars

\* The one probe was admitted and has not reported; a tick later the
\* breaker is still HalfOpen and has refused a further BeforeRequest
C16_Witness ==
    /\ state = StateHalfOpen /\ now - since >= 1 /\ expiry = ZeroTime
    /\ maxRequests = 1 /\ admits = 1
    /\ counts = [ZeroCounts EXCEPT !.Requests = 1]
    /\ \E c \in Callers : pc[c] = "admitted" /\ admittedGen[c] = generation
    /\ last.op = "BeforeRequest" /\ last.ret = ErrTooManyRequests

\* C18: under protocol-conforming use, when the breaker goes from HalfOpen
\* to Closed at least maxRequests requests had been admitted in that
\* HalfOpen generation.
C18_ClosedByProbesOnly ==
    [][(state = StateHalfOpen /\ state' = StateClosed)
        => (counts.Requests >= maxRequests /\ admits >= maxRequests)]_vars

----------------------------------------------------------------------------
(* The mutex.  Each method locks cb.mutex on entry and unlocks it on       *)
(* return (defer), so a method body is one step that finds the mutex free; *)
(* setState calls the observer inside the body, and until the observer     *)
(* returns the caller stays in it with the mutex held.  The observer is    *)
(* the user's code: it returns, or it calls a method of the same breaker   *)
(* and waits for the mutex its own caller holds.  In BeforeRequest the     *)
(* observer runs between the resolution of the state and the admission;    *)
(* in State and afterRequest nothing follows it.                           *)

\* cb.mutex.Lock() by caller c returns
Locked(c) == mutex = Free /\ inObserver[c] = "no"

\* An access to the breaker's fields by c, with the mutex held or not
Touch(c, held) == access' = [by |-> c, held |-> held]

\* setState with the mutex released before the observer is called
Observe_Unlocked(c, calls, method) ==
    IF calls # <<>>
    THEN /\ mutex' = Free
         /\ inObserver' = [inObserver EXCEPT ![c] = method]
    ELSE UNCHANGED <<mutex, inObserver>>

\* The observer, when the body of c's method has called it: c is in it
\* and the deferred Unlock has not run
Observe(c, calls, method) ==
    IF calls # <<>>
    THEN /\ mutex' = c
         /\ inObserver' = [inObserver EXCEPT ![c] = method]
    ELSE UNCHANGED <<mutex, inObserver>>

LockState(c) ==
    /\ Locked(c)
    /\ StateBody
    /\ Touch(c, TRUE)
    /\ Observe(c, last'.calls, "observer")

LockCounts(c) ==
    /\ Locked(c)
    /\ CountsBody
    /\ Touch(c, TRUE)
    /\ UNCHANGED <<mutex, inObserver>>

\* BeforeRequest: when currentState calls the observer, the step ends in
\* the observer with the state resolved and the request not yet decided
LockBeforeRequest(c) ==
    /\ Locked(c)
    /\ pc[c] = "idle"
    /\ counts.Requests < MaxCount
    /\ Touch(c, TRUE)
    /\ LET b == currentState(CB, now)
       IN  IF b.calls # <<>>
           THEN /\ Commit(b, FALSE)
                /\ Observe(c, b.calls, "beforeRequest")
                /\ UNCHANGED <<cfgVars, now, callerVars, strays, last>>
           ELSE /\ Admit(c)
                /\ UNCHANGED <<mutex, inObserver>>

\* OnSuccess / OnFailure, first half: cb.generation is read before
\* afterRequest locks the mutex
LockReport(c, succ) ==
    /\ inObserver[c] = "no"
    /\ ReadGeneration(c, succ)
    /\ Touch(c, mutex = c)
    /\ UNCHANGED <<mutex, inObserver>>

LockOnSuccess(c) == LockReport(c, TRUE)

LockOnFailure(c) == LockReport(c, FALSE)

LockAfterRequest(c) ==
    /\ Locked(c)
    /\ Settle(c)
    /\ Touch(c, TRUE)
    /\ Observe(c, last'.calls, "observer")

\* The observer returns; beforeRequest goes on to decide the request (the
\* breaker is HalfOpen, so nothing is left to resolve); the method returns
\* and the deferred Unlock runs
ObserverReturns(c) ==
    /\ inObserver[c] \in {"observer", "beforeRequest"}
    /\ mutex' = Free
    /\ inObserver' = [inObserver EXCEPT ![c] = "no"]
    /\ IF inObserver[c] = "beforeRequest"
       THEN Admit(c) /\ Touch(c, TRUE)
       ELSE UNCHANGED <<cfgVars, cbVars, now, callerVars, admits, since,
                        strays, last, access>>

\* The observer calls State, Counts, BeforeRequest, OnSuccess or OnFailure
\* of the same breaker: Lock() waits for the mutex its caller holds
ObserverReenters(c) ==
    /\ inObserver[c] \in {"observer", "beforeRequest"}
    /\ inObserver' = [inObserver EXCEPT ![c] = "blocked"]
    /\ UNCHANGED <<cfgVars, cbVars, now, callerVars, admits, since, strays,
                   last, mutex, access>>

NextLock ==
    \/ Tick
    \/ \E c \in Callers : LockState(c)
    \/ \E c \in Callers : LockCounts(c)
    \/ \E c \in Callers : LockBeforeRequest(c)
    \/ \E c \in Callers : LockOnSuccess(c)
    \/ \E c \in Callers : LockOnFailure(c)
    \/ \E c \in Callers : LockAfterRequest(c)
    \/ \E c \in Callers : ObserverReturns(c)
    \/ \E c \in Callers : ObserverReenters(c)

SpecLock == InitAny /\ [][NextLock]_vars

\* C11: every read and write of state, generation, counts and expiry is
\* made by a caller that holds the mutex.
C11_AccessUnderLock == access.held

\* Some caller is inside the observer
ObserverRunning == \E c \in Callers : inObserver[c] # "no"

\* C20: the observer runs with the mutex held by the caller whose call
\* changed the state; while it runs no call of State, Counts,
\* BeforeRequest, OnSuccess or OnFailure completes and no field changes,
\* until it returns; and once the observer has called a method of the
\* same breaker it never returns: the mutex stays held and no call
\* completes any more.
C20_ObserverHoldsMutex ==
    [][/\ \A c \in Callers : inObserver'[c] # "no" => mutex' = c
       /\ ObserverRunning =>
            \/ UNCHANGED <<cbVars, last, mutex>>
            \/ \E c \in Callers : ObserverReturns(c)
       /\ \A c \in Callers : inObserver[c] = "blocked" =>
            /\ inObserver'[c] = "blocked" /\ mutex' = c
            /\ UNCHANGED <<cbVars, last>>
            /\ \A d \in Callers : pc'[d] = "idle" => pc[d] = "idle"]_vars

\* The observer of one caller has called the breaker and waits for the
\* mutex, and the other caller's report waits for it too
C20_Witness ==
    \E c, d \in Callers :
        /\ c # d
        /\ inObserver[c] = "blocked" /\ mutex = c
        /\ pc[d] = "reporting"

====
